---- MODULE Spec2Model ----
(***************************************************************************)
(* BFF_AdamW (src/bff_optimizer.py): AdamW whose parameter, momentum,      *)
(* variance and Kahan compensation buffers are stored at a configurable    *)
(* floating-point precision.                                               *)
(*                                                                         *)
(* Numbers.  A finite floating-point value is a record [m, e] standing for *)
(* m * 2^e, with m odd (or m = 0 and e = 0), so equal values are equal     *)
(* records; NaN and the two infinities are records of their own.  The sign *)
(* of a zero is not kept: every divisor of the source that can be zero is  *)
(* a sum or a root of non-negative values, hence +0.  A dtype is its       *)
(* number of significant bits: 8 for bfloat16, 24 for float32, 53 for a    *)
(* Python float.  bfloat16 and float32 share the exponent range: values    *)
(* below 2^-126 are subnormal (fewer bits, down to 2^-133 and 2^-149),     *)
(* smaller ones round to zero, and what rounds to 2^128 or more is an      *)
(* infinity.  Rounding is to nearest, ties to even.  Products, quotients   *)
(* and square roots are computed on split or bitwise integers so that no   *)
(* intermediate exceeds 2^31.  Every parameter is a one-element tensor:    *)
(* all tensor operations of the source are elementwise.                    *)
(*                                                                         *)
(* Kernels.  An in-place operation computes in the promoted dtype of its   *)
(* tensor operands and rounds what it writes to the dtype of the tensor    *)
(* written.  When that dtype is float32 every operation is a float32       *)
(* operation on float32 scalars.  When it is bfloat16 the arithmetic is    *)
(* that of the torch build: either op-math (scalars are taken as float32,  *)
(* each operation is done in float32 and only the result is rounded to     *)
(* bfloat16) or reduced (scalars are cast to bfloat16 and every operation  *)
(* rounds to bfloat16).  The build is chosen once, in Init.                *)
(*                                                                         *)
(* Python floats.  lr, betas, eps and weight_decay are Python floats,      *)
(* held exactly as a sign, a natural number of any size and an exponent;   *)
(* the scalars 1 - lr * weight_decay, 1 - beta1 and 1 - beta2 are computed *)
(* in Python float arithmetic.  state["step"] is a 0-dim float32 tensor:   *)
(* += 1 is a float32 addition, which leaves 2^24 where it is.              *)
(* beta ** step, 1 - beta ** step, lr / bias_correction1 (the reciprocal   *)
(* times lr) and the square root are float32 operations on 0-dim tensors.  *)
(* The float32 power function of the platform is accurate to less than one *)
(* unit in the last place but not correctly rounded: its result is either  *)
(* of the two float32 values next to the exact power, chosen by the call   *)
(* (the power itself when it is a float32 value, zero when it is below     *)
(* half the smallest subnormal).                                           *)
(***************************************************************************)
EXTENDS Integers, Sequences, FiniteSets, TLC

\* ------------------------------------------------------------------ bounds
\* Largest number of step() calls explored from a state of Init.
MaxCalls == 2

\* -------------------------------------------------------- program constants
\* Significant bits of torch.bfloat16 (the default dtype of all three buffers).
BF16Bits == 8
\* Significant bits of torch.float32 ("to revert to usual AdamW"), the dtype
\* of state["step"] and of the 0-dim tensors computed from it.
FP32Bits == 24
\* Significant bits of a Python float (lr, betas, eps, weight_decay and the
\* scalars computed from them).
DoubleBits == 53
\* The value at which the float32 counter state["step"] stops: 2^24.
StepLimit == 16777216

\* ---------------------------------------------------------------- numerics
Abs(x) == IF x < 0 THEN -x ELSE x

Sign(x) == IF x < 0 THEN -1 ELSE 1

Min(a, b) == IF a < b THEN a ELSE b

Max(a, b) == IF a < b THEN b ELSE a

\* Number of bits of the natural number q (0 for 0).
RECURSIVE BitLen(_)
BitLen(q) ==
    IF q >= 256 THEN 8 + BitLen(q \div 256)
    ELSE IF q >= 16 THEN 4 + BitLen(q \div 16)
    ELSE IF q >= 8 THEN 4
    ELSE IF q >= 4 THEN 3
    ELSE IF q >= 2 THEN 2
    ELSE q

\* The value m * 2^e in canonical form.
RECURSIVE Float(_, _)
Float(m, e) ==
    IF m = 0 THEN [m |-> 0, e |-> 0]
    ELSE IF m % 256 = 0 THEN Float(m \div 256, e + 8)
    ELSE IF m % 16 = 0 THEN Float(m \div 16, e + 4)
    ELSE IF m % 2 = 0 THEN Float(m \div 2, e + 1)
    ELSE [m |-> m, e |-> e]

Zero == Float(0, 0)
One == Float(1, 0)

\* Not a number, and plus infinity: its exponent is beyond that of every
\* finite value.
NaN == [m |-> 0, e |-> 1]
Inf == [m |-> 1, e |-> 4096]

IsNaN(x) == x.m = 0 /\ x.e # 0

IsInf(x) == x.e = Inf.e

Finite(x) == ~IsNaN(x) /\ ~IsInf(x)

Neg(x) == [m |-> -x.m, e |-> x.e]

WithSign(s, x) == [m |-> s * x.m, e |-> x.e]

\* One more than the exponent of the leading bit of a non-zero value:
\* 2^(Top - 1) <= |x| < 2^Top.
Top(x) == x.e + BitLen(Abs(x.m))

\* The exponent range of the dtype of P significant bits: its finite values
\* are below 2^TopMax, its normal values at least 2^(TopMin - 1).
TopMax(P) == IF P = DoubleBits THEN 1024 ELSE 128

TopMin(P) == IF P = DoubleBits THEN -1021 ELSE -125

\* Significant bits the dtype keeps of a value whose leading bit is at top:
\* all P of a normal value, fewer of a subnormal one, none (or less) of a
\* value below the smallest subnormal.
Kept(top, P) == IF top < TopMin(P) THEN P - (TopMin(P) - top) ELSE P

\* mag (of len bits) times 2^e rounded to its keep highest bits, to nearest,
\* ties to even: q is what is kept, r the remainder, of which half is the
\* midpoint; sticky tells that more non-zero bits follow mag.
RoundKept(mag, e, sticky, len, keep) ==
    IF keep < 0 THEN Zero
    ELSE IF len <= keep THEN Float(mag, e)
    ELSE LET s == len - keep
             q == mag \div 2 ^ s
             r == mag % 2 ^ s
             half == 2 ^ (s - 1)
         IN  IF r > half \/ (r = half /\ (sticky \/ q % 2 = 1))
             THEN Float(q + 1, e + s) ELSE Float(q, e + s)

\* What rounds to 2^TopMax or more is an infinity.
Overflow(x, P) == IF x.m # 0 /\ Top(x) > TopMax(P) THEN Inf ELSE x

\* The natural number mag (times 2^e, followed by further non-zero bits when
\* sticky, in which case mag has more than P + 1 bits) rounded to the dtype
\* of P significant bits.
RoundMag(mag, e, sticky, P) ==
    LET len == BitLen(mag)
    IN  Overflow(RoundKept(mag, e, sticky, len, Kept(e + len, P)), P)

\* The value x rounded to the dtype of P significant bits: what a tensor of
\* that dtype stores.
ToDtype(x, P) ==
    IF ~Finite(x) THEN x
    ELSE WithSign(Sign(x.m), RoundMag(Abs(x.m), x.e, FALSE, P))

\* ---- product
\* The product of two naturals below 2^24 as mag * 2^shift (+ sticky bits),
\* from the 12-bit halves of the factors.
WideMul(a1, a0, b1, b0) ==
    LET mid == a1 * b0 + a0 * b1
        low == (mid % 4096) * 4096 + a0 * b0
        hi == a1 * b1 + mid \div 4096 + low \div 16777216
        rest == low % 16777216
        k == 30 - BitLen(hi)
    IN  [mag |-> hi * 2 ^ k + rest \div 2 ^ (24 - k), shift |-> 24 - k,
         sticky |-> rest % 2 ^ (24 - k) # 0]

MulMag(a, b) ==
    IF BitLen(a) + BitLen(b) <= 30
    THEN [mag |-> a * b, shift |-> 0, sticky |-> FALSE]
    ELSE WideMul(a \div 4096, a % 4096, b \div 4096, b % 4096)

\* x * y in float32.
FMul(x, y) ==
    IF IsNaN(x) \/ IsNaN(y) THEN NaN
    ELSE IF IsInf(x) \/ IsInf(y)
    THEN (IF x.m = 0 \/ y.m = 0 THEN NaN
          ELSE WithSign(Sign(x.m) * Sign(y.m), Inf))
    ELSE IF x.m = 0 \/ y.m = 0 THEN Zero
    ELSE LET w == MulMag(Abs(x.m), Abs(y.m))
         IN  WithSign(Sign(x.m) * Sign(y.m),
                      RoundMag(w.mag, x.e + y.e + w.shift, w.sticky,
                               FP32Bits))

\* ---- quotient
\* k further bits of the quotient of rem / b (rem < b < 2^24) by long
\* division, seven bits at a time.
RECURSIVE LongDiv(_, _, _, _)
LongDiv(q, rem, b, k) ==
    IF k >= 7
    THEN LongDiv(q * 128 + (rem * 128) \div b, (rem * 128) % b, b, k - 7)
    ELSE [q |-> q * 2 ^ k + (rem * 2 ^ k) \div b, rem |-> (rem * 2 ^ k) % b]

\* x / y in float32: 0 / 0 and inf / inf are NaN, x / 0 is an infinity.
FDiv(x, y) ==
    IF IsNaN(x) \/ IsNaN(y) THEN NaN
    ELSE IF IsInf(x)
    THEN (IF IsInf(y) THEN NaN ELSE WithSign(Sign(x.m) * Sign(y.m), Inf))
    ELSE IF IsInf(y) THEN Zero
    ELSE IF y.m = 0
    THEN (IF x.m = 0 THEN NaN ELSE WithSign(Sign(x.m), Inf))
    ELSE IF x.m = 0 THEN Zero
    ELSE LET a == Abs(x.m)
             b == Abs(y.m)
             k == 26 + BitLen(b) - BitLen(a)
             d == LongDiv(a \div b, a % b, b, k)
         IN  WithSign(Sign(x.m) * Sign(y.m),
                      RoundMag(d.q, x.e - y.e - k, d.rem # 0, FP32Bits))

\* ---- sum
\* a's mantissa extended to 29 bits (exponent e) plus b's mantissa shifted
\* left to that exponent.
AddExact(ma, e, mb, up) ==
    LET sum == ma + mb * 2 ^ up
    IN  WithSign(Sign(sum), RoundMag(Abs(sum), e, FALSE, FP32Bits))

\* The same with b's low bits shifted out (down >= 1) into the sticky bit.
AddSticky(ma, e, q, sticky, same) ==
    WithSign(Sign(ma),
             RoundMag(IF same THEN Abs(ma) + q
                      ELSE Abs(ma) - q - (IF sticky THEN 1 ELSE 0),
                      e, sticky, FP32Bits))

AddShifted(ma, e, mb, down) ==
    IF down >= 31 THEN AddSticky(ma, e, 0, TRUE, Sign(ma) = Sign(mb))
    ELSE AddSticky(ma, e, Abs(mb) \div 2 ^ down, Abs(mb) % 2 ^ down # 0,
                   Sign(ma) = Sign(mb))

AddAt(ma, e, b) ==
    IF e <= b.e THEN AddExact(ma, e, b.m, b.e - e)
    ELSE AddShifted(ma, e, b.m, e - b.e)

\* a + b where a's leading bit is at least as high as b's.
AddOrdered(a, b) ==
    LET up == 29 - BitLen(Abs(a.m))
    IN  AddAt(a.m * 2 ^ up, a.e - up, b)

\* x + y in float32: inf - inf is NaN.
FAdd(x, y) ==
    IF IsNaN(x) \/ IsNaN(y) THEN NaN
    ELSE IF IsInf(x) THEN (IF IsInf(y) /\ x.m # y.m THEN NaN ELSE x)
    ELSE IF IsInf(y) THEN y
    ELSE IF x.m = 0 THEN y
    ELSE IF y.m = 0 THEN x
    ELSE IF Top(x) >= Top(y) THEN AddOrdered(x, y)
    ELSE AddOrdered(y, x)

FSub(x, y) == FAdd(x, Neg(y))

\* ---- square root
\* Floor of the square root of a natural number.
RECURSIVE ISqrt(_)
ISqrt(n) ==
    IF n < 2 THEN n
    ELSE LET r == 2 * ISqrt(n \div 4)
         IN  IF (r + 1) * (r + 1) <= n THEN r + 1 ELSE r

\* Further bits of the root, two per step: root^2 + rem is the radicand
\* scaled by 16 at each step, and the next two bits are the largest d with
\* (4 * root + d)^2 not above it.
RECURSIVE SqrtExt(_, _, _)
SqrtDigits(root, rem, e, d) ==
    SqrtExt(4 * root + d, 16 * rem - 8 * root * d - d * d, e - 2)

SqrtExt(root, rem, e) ==
    IF rem = 0 \/ root >= 33554432
    THEN RoundMag(root, e, rem # 0, FP32Bits)
    ELSE IF 16 * rem >= 24 * root + 9 THEN SqrtDigits(root, rem, e, 3)
    ELSE IF 16 * rem >= 16 * root + 4 THEN SqrtDigits(root, rem, e, 2)
    ELSE IF 16 * rem >= 8 * root + 1 THEN SqrtDigits(root, rem, e, 1)
    ELSE SqrtDigits(root, rem, e, 0)

\* sqrt(n * 2^(2 * e)).
SqrtMag(n, e) ==
    LET r == ISqrt(n)
    IN  SqrtExt(r, n - r * r, e)

\* sqrt(x) in float32: NaN for a negative x.
FSqrt(x) ==
    IF IsNaN(x) \/ x.m < 0 THEN NaN
    ELSE IF IsInf(x) \/ x.m = 0 THEN x
    ELSE IF x.e % 2 = 0 THEN SqrtMag(x.m, x.e \div 2)
    ELSE SqrtMag(2 * x.m, (x.e - 1) \div 2)

\* ---- exact values
\* A natural number of any size as the sequence of its base-4096 digits,
\* lowest first, the highest not zero (<< >> is 0).
BigAt(a, i) == IF i <= Len(a) THEN a[i] ELSE 0

\* Index of the highest non-zero digit (0 when there is none).
BigTop(a) ==
    IF \A i \in 1 .. Len(a) : a[i] = 0 THEN 0
    ELSE CHOOSE i \in 1 .. Len(a) :
             a[i] # 0 /\ \A k \in i + 1 .. Len(a) : a[k] = 0

BigTrim(a) == SubSeq(a, 1, BigTop(a))

\* A natural number below 2^31.
BigOf(n) == BigTrim(<<n % 4096, (n \div 4096) % 4096, n \div 16777216>>)

\* A natural number of at most three digits.
BigToNat(a) == BigAt(a, 1) + 4096 * BigAt(a, 2) + 16777216 * BigAt(a, 3)

\* A carry enters digit j of a + b: a lower digit sum overflows and every
\* digit sum in between is 4095.
BigCarry(a, b, j) ==
    \E i \in 1 .. j - 1 :
        /\ BigAt(a, i) + BigAt(b, i) >= 4096
        /\ \A k \in i + 1 .. j - 1 : BigAt(a, k) + BigAt(b, k) = 4095

BigSumLen(a, b) == 1 + IF Len(a) > Len(b) THEN Len(a) ELSE Len(b)

\* a + b (digits below 4096; the sequences need not be trimmed).
BigAdd(a, b) ==
    BigTrim([j \in 1 .. BigSumLen(a, b) |->
                (BigAt(a, j) + BigAt(b, j)
                   + IF BigCarry(a, b, j) THEN 1 ELSE 0) % 4096])

BigBorrow(a, b, j) ==
    \E i \in 1 .. j - 1 :
        /\ BigAt(a, i) < BigAt(b, i)
        /\ \A k \in i + 1 .. j - 1 : BigAt(a, k) = BigAt(b, k)

\* a - b for a >= b.
BigSub(a, b) ==
    BigTrim([j \in 1 .. Len(a) |->
                (4096 + a[j] - BigAt(b, j)
                   - IF BigBorrow(a, b, j) THEN 1 ELSE 0) % 4096])

\* a * h for a digit h: the low digits of the products plus their high
\* digits one place up.
BigMulDigit(a, h) ==
    BigAdd([j \in 1 .. Len(a) |-> (a[j] * h) % 4096],
           <<0>> \o [j \in 1 .. Len(a) |-> (a[j] * h) \div 4096])

\* The product of digit j + 1 - i of a and digit i of b.
BigTerm(a, b, j, i) ==
    IF i <= Len(b) /\ j + 1 - i >= 1 THEN BigAt(a, j + 1 - i) * b[i] ELSE 0

\* The sum of the digit products of weight 4096^(j - 1), b having at most
\* six digits.
BigColumn(a, b, j) ==
    BigTerm(a, b, j, 1) + BigTerm(a, b, j, 2) + BigTerm(a, b, j, 3)
      + BigTerm(a, b, j, 4) + BigTerm(a, b, j, 5) + BigTerm(a, b, j, 6)

\* The sum of the columns c, each below 4096^3, from their three digits.
BigColumns(c) ==
    BigAdd(BigAdd([j \in DOMAIN c |-> c[j] % 4096],
                  <<0>> \o [j \in DOMAIN c |-> (c[j] \div 4096) % 4096]),
           <<0, 0>> \o [j \in DOMAIN c |-> c[j] \div 16777216])

BigMulShort(a, b) ==
    BigColumns([j \in 1 .. Len(a) + Len(b) - 1 |-> BigColumn(a, b, j)])

\* a * b, one of the two having at most six digits.
BigMul(a, b) ==
    IF a = << >> \/ b = << >> THEN << >>
    ELSE IF Len(b) <= Len(a) THEN BigMulShort(a, b)
    ELSE BigMulShort(b, a)

BigBitLen(a) ==
    IF a = << >> THEN 0 ELSE 12 * (Len(a) - 1) + BitLen(a[Len(a)])

\* a * 2^k.
BigShl(a, k) ==
    IF a = << >> THEN a
    ELSE [i \in 1 .. k \div 12 |-> 0] \o BigMulDigit(a, 2 ^ (k % 12))

BigShrBits(a, r) ==
    BigTrim([i \in 1 .. Len(a) |->
                a[i] \div 2 ^ r + (BigAt(a, i + 1) % 2 ^ r) * 2 ^ (12 - r)])

\* a divided by 2^k, rounded down.
BigShr(a, k) == BigShrBits(SubSeq(a, k \div 12 + 1, Len(a)), k % 12)

\* Bit i of a is set.
BigBit(a, i) == (BigAt(a, i \div 12 + 1) \div 2 ^ (i % 12)) % 2 = 1

\* The k lowest bits of a are zero.
BigLowZero(a, k) ==
    /\ \A i \in 1 .. Len(a) : i <= k \div 12 => a[i] = 0
    /\ BigAt(a, k \div 12 + 1) % 2 ^ (k % 12) = 0

BigOdd(a) == BigAt(a, 1) % 2 = 1

\* a < b for trimmed sequences.
BigLess(a, b) ==
    IF Len(a) # Len(b) THEN Len(a) < Len(b)
    ELSE \E i \in 1 .. Len(a) :
             a[i] < b[i] /\ \A k \in i + 1 .. Len(a) : a[k] = b[k]

BigRoundUp(q, up) == IF up THEN BigAdd(q, <<1>>) ELSE q

BigRoundTo(a, d, q) ==
    BigRoundUp(q, BigBit(a, d - 1) /\ (~BigLowZero(a, d - 1) \/ BigOdd(q)))

\* a with its d >= 1 lowest bits rounded away, to nearest, ties to even.
BigRoundDrop(a, d) == BigRoundTo(a, d, BigShr(a, d))

\* a with its d >= 1 lowest bits rounded away, downwards or upwards.
BigDirected(a, d, up) == BigRoundUp(BigShr(a, d), up /\ ~BigLowZero(a, d))

\* An exact value s * mag * 2^e: the sign s, the natural number mag.
Exact(s, mag, e) == [s |-> IF mag = << >> THEN 0 ELSE s, mag |-> mag, e |-> e]

ExactOf(x) == Exact(Sign(x.m), BigOf(Abs(x.m)), x.e)

ExactZero == Exact(0, << >>, 0)

ExactOne == Exact(1, <<1>>, 0)

\* An infinity of Python float arithmetic: a value beyond every finite one.
ExactInf(s) == Exact(s, <<1>>, Inf.e)

ExactNeg(a) == [a EXCEPT !.s = -@]

ExactTop(a) == a.e + BigBitLen(a.mag)

ExactMul(a, b) == Exact(a.s * b.s, BigMul(a.mag, b.mag), a.e + b.e)

\* a + b, from the magnitudes x and y at the common exponent e.
ExactAdd(a, b) ==
    IF a.s = 0 THEN b
    ELSE IF b.s = 0 THEN a
    ELSE LET e == Min(a.e, b.e)
             x == BigShl(a.mag, a.e - e)
             y == BigShl(b.mag, b.e - e)
         IN  IF a.s = b.s THEN Exact(a.s, BigAdd(x, y), e)
             ELSE IF BigLess(x, y) THEN Exact(b.s, BigSub(y, x), e)
             ELSE Exact(a.s, BigSub(x, y), e)

\* 1 - a.
ExactOneMinus(a) == ExactAdd(ExactOne, ExactNeg(a))

ExactOverflow(a, P) ==
    IF a.s # 0 /\ ExactTop(a) > TopMax(P) THEN ExactInf(a.s) ELSE a

ExactKept(a, len, keep) ==
    IF keep < 0 THEN ExactZero
    ELSE IF len <= keep THEN a
    ELSE Exact(a.s, BigRoundDrop(a.mag, len - keep), a.e + len - keep)

\* a rounded to the dtype of P significant bits.
ExactRound(a, P) ==
    LET len == BigBitLen(a.mag)
    IN  ExactOverflow(ExactKept(a, len, Kept(a.e + len, P)), P)

\* The result of a Python float operation whose exact value is a.
Double(a) == ExactRound(a, DoubleBits)

\* An exact value that is one of float32, as such.
Narrow(a) == Float(a.s * BigToNat(a.mag), a.e)

\* A Python float handed to a kernel as a float32 scalar.
ToFloat32(a) == Narrow(ExactRound(a, FP32Bits))

\* ---- the float32 power function
\* A positive exact value cut to its six highest digits, downwards or
\* upwards: a bound of relative error below 2^-60.
BigHigh(mag, drop, up) ==
    BigRoundUp(SubSeq(mag, drop + 1, Len(mag)),
               up /\ \E i \in 1 .. drop : mag[i] # 0)

Cut(a, up) ==
    IF Len(a.mag) <= 6 THEN a
    ELSE Exact(1, BigHigh(a.mag, Len(a.mag) - 6, up),
               a.e + 12 * (Len(a.mag) - 6))

\* Bounds of powers of a positive a, lower ones or (when up) upper ones:
\* the square of h, and a ** r for r < 8.
Square(h, up) == Cut(ExactMul(h, h), up)

Times(h, a, up) == Cut(ExactMul(h, a), up)

PowSmall(a, r, up) ==
    IF r = 0 THEN ExactOne
    ELSE IF r = 1 THEN a
    ELSE IF r = 2 THEN Square(a, up)
    ELSE IF r = 3 THEN Times(Square(a, up), a, up)
    ELSE IF r = 4 THEN Square(Square(a, up), up)
    ELSE IF r = 5 THEN Times(Square(Square(a, up), up), a, up)
    ELSE IF r = 6 THEN Square(Times(Square(a, up), a, up), up)
    ELSE Times(Square(Times(Square(a, up), a, up), up), a, up)

\* h ** 8 * a ** r.  A bound already beyond the range of every dtype is
\* kept as it is.
PowNext(h, a, r, up) ==
    IF Abs(ExactTop(h)) > 2 * TopMax(DoubleBits) THEN h
    ELSE Times(Square(Square(Square(h, up), up), up), PowSmall(a, r, up), up)

\* A lower (upper when up) bound of a ** t for a positive a and t >= 1,
\* three bits of t at a time.
RECURSIVE PowBound(_, _, _)
PowBound(a, t, up) ==
    IF t < 8 THEN PowSmall(a, t, up)
    ELSE PowNext(PowBound(a, t \div 8, up), a, t % 8, up)

\* a rounded to float32 downwards or upwards.
ExactDirected(a, up) ==
    LET len == BigBitLen(a.mag)
        keep == Kept(a.e + len, FP32Bits)
    IN  ExactOverflow(IF len <= keep THEN a
                      ELSE Exact(a.s, BigDirected(a.mag, len - keep, up),
                                 a.e + len - keep),
                      FP32Bits)

\* The float32 next to the power lying between lo and hi, below or above
\* it; the float32 between lo and hi when there is one; zero when the power
\* is below half the smallest subnormal.
PowPick(lo, hi, up) ==
    IF ExactTop(hi) < TopMin(FP32Bits) - FP32Bits THEN Zero
    ELSE IF Narrow(ExactDirected(lo, TRUE)) = Narrow(ExactDirected(hi, FALSE))
    THEN Narrow(ExactDirected(lo, TRUE))
    ELSE IF up THEN Narrow(ExactDirected(hi, TRUE))
    ELSE Narrow(ExactDirected(lo, FALSE))

PowMag(a, t, up) == PowPick(PowBound(a, t, FALSE), PowBound(a, t, TRUE), up)

\* The power of an odd m * 2^e is a float32 value for certain: m ** t has at
\* most 24 bits and the exponent is in range.
PowFits(m, e, t) ==
    /\ BitLen(Abs(m)) * t <= FP32Bits
    /\ e * t >= TopMin(FP32Bits) - FP32Bits
    /\ e * t <= TopMax(FP32Bits) - FP32Bits

\* (2^e) ** t, which the power function computes without error: the exact
\* power when it is a float32 value, zero when it is below the smallest
\* subnormal, an infinity when it is beyond the range.
PowOfTwo(e, t) ==
    IF e = 0 THEN One
    ELSE IF e < 0
    THEN (IF t <= FP32Bits - TopMin(FP32Bits)
               /\ e * t >= TopMin(FP32Bits) - FP32Bits
          THEN Float(1, e * t)
          ELSE Zero)
    ELSE IF t < TopMax(FP32Bits) /\ e * t < TopMax(FP32Bits)
    THEN Float(1, e * t)
    ELSE Inf

\* base ** t for the float32 base and the natural number t >= 1 held by a
\* 0-dim float32 tensor: the float32 power function, whose result is the
\* exact power when that is a float32 value, and else the float32 value
\* below (above when up) the exact power.
Pow(base, t, up) ==
    IF base.m = 0 THEN Zero
    ELSE IF base.m = 1 THEN PowOfTwo(base.e, t)
    ELSE IF PowFits(base.m, base.e, t) THEN Float(base.m ^ t, base.e * t)
    ELSE WithSign(IF base.m < 0 /\ t % 2 = 1 THEN -1 ELSE 1,
                  PowMag(ExactOf(WithSign(Sign(base.m), base)), t, up))

\* ------------------------------------------------------- inputs and groups
\* The parameters of the optimizer, in iteration order (lines 88 and 101).
Params == 1 .. 2

\* p.grad: None, a sparse tensor, or a dense tensor (its element value).
NoGrad == [kind |-> "none", val |-> Zero]
SparseGrad == [kind |-> "sparse", val |-> Zero]
Dense(g) == [kind |-> "dense", val |-> g]

\* The gradients of a call: None, sparse, and dense with the value 0.0 or 1.0.
Grads == {NoGrad, SparseGrad, Dense(Zero), Dense(One)}

\* self.state[p] before the first update: an empty dict.
NoState == [k \in {} |-> 0]

\* The defaults dict of __init__ (lines 62-71).  lr, betas, eps and
\* weight_decay are Python floats, held exactly; a dtype is its number of
\* significant bits.
Group(lr, b1, b2, eps, wd, kahan, mb, vb, cb) ==
    [lr |-> lr, beta1 |-> b1, beta2 |-> b2, eps |-> eps, weight_decay |-> wd,
     use_kahan_summation |-> kahan,
     momentum_dtype |-> mb, variance_dtype |-> vb,
     compensation_buffer_dtype |-> cb]

\* The Python float m * 2^e.
Dyadic(m, e) == ExactOf(Float(m, e))

\* The Python floats 0.001, 0.9, 0.999, 1e-08 (the defaults of lines 22-24)
\* and 0.01 (the weight decay the docstring names, line 39).
Milli == Exact(1, <<2687, 3014, 884, 393, 4>>, -60)
NineTenths == Exact(1, <<3277, 3276, 3276, 3276, 28>>, -53)
NearOne == Exact(1, <<1835, 360, 3801, 3964, 31>>, -53)
Tiny == Exact(1, <<1565, 388, 1905, 3020, 10>>, -78)
Centi == Exact(1, <<1147, 2785, 327, 1966, 20>>, -59)

\* The Python float 2^-9 + 2^-40.
Fine == Exact(1, <<1, 0, 128>>, -40)

\* A group with every buffer in bfloat16 (the defaults of lines 26-28),
\* betas (1/2, 1/2) and eps 2^-10.
BF16Group(lr, wd, kahan) ==
    Group(lr, Dyadic(1, -1), Dyadic(1, -1), Dyadic(1, -10), wd, kahan,
          BF16Bits, BF16Bits, BF16Bits)

\* The constructor's defaults (lines 22-28).
DefaultGroup ==
    Group(Milli, NineTenths, NearOne, Tiny, ExactZero, TRUE,
          BF16Bits, BF16Bits, BF16Bits)

\* Mixed precision: float32 buffers (for a bfloat16 parameter), lr = 1 - 2^-20.
MixedGroup ==
    Group(Dyadic(1048575, -20), Dyadic(1, -1), Dyadic(1, -1), Dyadic(1, -10),
          ExactZero, TRUE, FP32Bits, FP32Bits, FP32Bits)

\* eps = 2^-200: positive, below the range of bfloat16 and float32.
TinyEpsGroup ==
    Group(Dyadic(1, -10), Dyadic(1, -1), Dyadic(1, -1), Dyadic(1, -200),
          Dyadic(1, -3), TRUE, BF16Bits, BF16Bits, BF16Bits)

\* "To revert to usual AdamW": float32 buffers, no Kahan summation (line 58);
\* the default lr, betas and eps, and the weight decay 0.01.
FP32Group ==
    Group(Milli, NineTenths, NearOne, Tiny, Centi, FALSE,
          FP32Bits, FP32Bits, FP32Bits)

\* beta1 = beta2 = 1 - 2^-30: below one, and one as a float32.
BetaOneGroup ==
    Group(Dyadic(1, -10), Dyadic(1073741823, -30), Dyadic(1073741823, -30),
          Dyadic(1, -10), ExactZero, FALSE, BF16Bits, BF16Bits, BF16Bits)

\* A configuration: for each parameter its param group and the dtype of its
\* own storage.
Config(g1, d1, g2, d2) ==
    [hyper |-> <<g1, g2>>, dtype |-> <<d1, d2>>]

\* The configurations explored.
Configs ==
    { Config(MixedGroup, BF16Bits,
             BF16Group(Dyadic(1, -10), ExactZero, TRUE), BF16Bits),
      Config(BF16Group(Dyadic(3, 0), Dyadic(1, -3), TRUE), BF16Bits,
             BF16Group(Fine, ExactOne, FALSE), BF16Bits),
      Config(DefaultGroup, BF16Bits, BetaOneGroup, BF16Bits),
      Config(FP32Group, FP32Bits, TinyEpsGroup, BF16Bits),
      Config(BF16Group(Fine, ExactOne, FALSE), BF16Bits,
             TinyEpsGroup, BF16Bits) }

\* --------------------------------------------------------------- kernels
\* A float32 value (an intermediate result, a 0-dim float32 operand) as a
\* kernel computing at bits significant bits holds it: the bfloat16 kernels
\* of a build without op-math (opmath is the build's choice) round their
\* scalars and every intermediate result to bfloat16.
Cast(x, bits, opmath) ==
    IF bits = BF16Bits /\ ~opmath THEN ToDtype(x, bits) ELSE x

\* A Python float as the kernel holds it.
Scalar(s, bits, opmath) == Cast(ToFloat32(s), bits, opmath)

\* ------------------------------------------------------------ the update
\* Lines 111-135: state initialization on the first update;
\* state["step"] = torch.tensor(0.0) is a float32.
InitState(group) ==
    IF group.use_kahan_summation
    THEN [step |-> Zero, exp_avg |-> Zero, exp_avg_sq |-> Zero,
          compensation |-> Zero]
    ELSE [step |-> Zero, exp_avg |-> Zero, exp_avg_sq |-> Zero]

\* Faulty variant: the state is initialised on every update.
GetOrCreateAlways(st, group) == InitState(group)

\* Lines 108-111: state = self.state[p], initialised when empty.
GetOrCreate(st, group) == IF DOMAIN st = {} THEN InitState(group) ELSE st

\* Faulty variant: the step is counted twice.
IncStepTwice(st) == [st EXCEPT !.step = FAdd(FAdd(@, One), One)]

\* Line 140: state["step"] += 1, a float32 addition.
IncStep(st) == [st EXCEPT !.step = FAdd(@, One)]

\* The whole number held by state["step"].
StepCount(st) == st.step.m * 2 ^ st.step.e

\* Line 150: the Python float 1 - lr * weight_decay (the product, then the
\* difference, each a Python float).
DecayFactor(group) ==
    Double(ExactOneMinus(Double(ExactMul(group.lr, group.weight_decay))))

\* Faulty variant: the decay is not scaled by the learning rate.
WeightDecayNoLr(p, group, pBits, opmath) ==
    IF group.weight_decay.s = 0 THEN p
    ELSE ToDtype(FMul(p, Scalar(Double(ExactOneMinus(group.weight_decay)),
                                pBits, opmath)), pBits)

\* Lines 149-150: p.data.mul_(1 - lr * weight_decay), skipped when
\* weight_decay is zero.
WeightDecay(p, group, pBits, opmath) ==
    IF group.weight_decay.s = 0 THEN p
    ELSE ToDtype(FMul(p, Scalar(DecayFactor(group), pBits, opmath)), pBits)

\* The Python float 1 - beta (lines 153 and 156).
Complement(beta) == Double(ExactOneMinus(beta))

\* self.mul_(beta) on a buffer of P significant bits.
Scale(x, beta, P, opmath) == ToDtype(FMul(x, Scalar(beta, P, opmath)), P)

\* self.add_(grad, alpha=alpha) on a buffer of P significant bits, computed
\* at bits significant bits: self + alpha * grad.
AddScaledGrad(x, g, alpha, P, bits, opmath) ==
    ToDtype(FAdd(x, Cast(FMul(Scalar(alpha, bits, opmath), g), bits, opmath)),
            P)

\* self.addcmul_(grad, grad, value=value): self + value * grad * grad, left
\* to right.
AddCMul(x, g, value, P, bits, opmath) ==
    ToDtype(FAdd(x, Cast(FMul(Cast(FMul(Scalar(value, bits, opmath), g),
                                   bits, opmath), g), bits, opmath)),
            P)

\* Line 153: exp_avg.mul_(beta1).add_(grad, alpha=1 - beta1); grad has the
\* parameter's dtype.
UpdateMomentum(m, g, group, pBits, opmath) ==
    AddScaledGrad(Scale(m, group.beta1, group.momentum_dtype, opmath), g,
                  Complement(group.beta1), group.momentum_dtype,
                  Max(group.momentum_dtype, pBits), opmath)

\* Line 156: exp_avg_sq.mul_(beta2).addcmul_(grad, grad, value=1 - beta2).
UpdateVariance(v, g, group, pBits, opmath) ==
    AddCMul(Scale(v, group.beta2, group.variance_dtype, opmath), g,
            Complement(group.beta2), group.variance_dtype,
            Max(group.variance_dtype, pBits), opmath)

\* Lines 152-156: the momentum and variance buffers after the update.
UpdateMoments(st, g, group, pBits, opmath) ==
    [st EXCEPT !.exp_avg = UpdateMomentum(@, g, group, pBits, opmath),
               !.exp_avg_sq = UpdateVariance(@, g, group, pBits, opmath)]

\* 1 - beta ** step: a 0-dim float32 tensor, step being one; up tells how
\* the power function rounds in this call.
BiasCorrection(beta, t, up) == FSub(One, Pow(ToFloat32(beta), t, up))

\* Lines 159-160: bias_correction1 = 1 - beta1 ** step;
\* step_size = lr / bias_correction1, a 0-dim float32 tensor.  A Python
\* float divided by a tensor is the tensor's reciprocal times the float:
\* two float32 operations.
StepSize(t, group, up) ==
    FMul(FDiv(One, BiasCorrection(group.beta1, t, up)), ToFloat32(group.lr))

\* Line 163: denom_correction = (1 - beta2 ** step) ** 0.5, a 0-dim float32
\* tensor.
DenomCorrection(t, group, up) == FSqrt(BiasCorrection(group.beta2, t, up))

\* Line 165: exp_avg_sq.sqrt(), a tensor of the variance dtype.
Root(v, group) == ToDtype(FSqrt(v), group.variance_dtype)

\* Line 165: exp_avg_sq.sqrt() / denom_correction, root being the rounded
\* square root and dc the 0-dim float32 divisor; the quotient rounds again.
DivideByCorrection(root, dc, group, opmath) ==
    ToDtype(FDiv(root, Cast(dc, group.variance_dtype, opmath)),
            group.variance_dtype)

\* Faulty variant: eps is scaled away (alpha = 0).
AddEpsDropped(quot, group, opmath) == quot

\* Lines 165-167: .add_(eps, alpha=1) on the quotient.
AddEps(quot, group, opmath) ==
    ToDtype(FAdd(quot, Scalar(group.eps, group.variance_dtype, opmath)),
            group.variance_dtype)

\* Lines 163-167: centered_variance =
\* (exp_avg_sq.sqrt() / denom_correction).add_(eps, alpha=1); the square
\* root, the division and the addition each round to the variance dtype.
CenteredVariance(v, dc, group, opmath) ==
    AddEps(DivideByCorrection(Root(v, group), dc, group, opmath), group,
           opmath)

\* value * exp_avg / centered_variance with value = -step_size, computed
\* left to right (the addcdiv term of lines 174 and 184).
UpdateTerm(m, cv, ss, bits, opmath) ==
    Cast(FDiv(Cast(FMul(Cast(Neg(ss), bits, opmath), m), bits, opmath), cv),
         bits, opmath)

\* self.addcdiv_(exp_avg, centered_variance, value=-step_size) on a tensor
\* of P significant bits, computed at bits significant bits.
AddCDiv(self, m, cv, ss, P, bits, opmath) ==
    ToDtype(FAdd(self, UpdateTerm(m, cv, ss, bits, opmath)), P)

\* The promoted dtype of a tensor of P significant bits and the two moment
\* buffers.
WithMoments(P, group) ==
    Max(P, Max(group.momentum_dtype, group.variance_dtype))

\* Line 174: compensation.addcdiv_(exp_avg, centered_variance, value=-step_size).
Accumulate(c, m, cv, ss, group, opmath) ==
    AddCDiv(c, m, cv, ss, group.compensation_buffer_dtype,
            WithMoments(group.compensation_buffer_dtype, group), opmath)

\* Faulty variant: the rounding error overwrites the compensation.
RecoverOverwrites(c1, temp_buffer, pNew, diff, group) ==
    [p |-> pNew, diff |-> diff,
     compensation |-> ToDtype(diff, group.compensation_buffer_dtype)]

\* Line 180: compensation.add_(temp_buffer.sub_(p.data)); the subtraction
\* is done in place in temp_buffer, at the parameter's precision.
Recover(c1, temp_buffer, pNew, diff, group) ==
    [p |-> pNew, diff |-> diff,
     compensation |-> ToDtype(FAdd(c1, diff), group.compensation_buffer_dtype)]

\* Lines 179-180 given the snapshot temp_buffer and the new parameter pNew.
Subtract(c1, temp_buffer, pNew, group, pBits) ==
    Recover(c1, temp_buffer, pNew, ToDtype(FSub(temp_buffer, pNew), pBits),
            group)

\* Lines 178-180: temp_buffer = p.clone(); p.data.add_(compensation);
\* compensation.add_(temp_buffer.sub_(p.data)).
KahanApply(p, c1, group, pBits) ==
    Subtract(c1, p, ToDtype(FAdd(p, c1), pBits), group, pBits)

\* Line 184: p.data.addcdiv_(exp_avg, centered_variance, value=-step_size).
DirectApply(p, m, cv, ss, group, pBits, opmath) ==
    AddCDiv(p, m, cv, ss, pBits, WithMoments(pBits, group), opmath)

\* The intermediate values of one update.
Trace(kind, pd, ss, dc, cv, c1, diff) ==
    [kind |-> kind, decayed |-> pd, step_size |-> ss, denom_correction |-> dc,
     centered_variance |-> cv, c1 |-> c1, diff |-> diff]

\* The result of the Kahan branch (lines 171-180) from its parts.
KahanResult(pd, st, ss, dc, cv, c1, k) ==
    [trace |-> Trace("kahan", pd, ss, dc, cv, c1, k.diff),
     p |-> k.p,
     state |-> [st EXCEPT !.compensation = k.compensation]]

KahanBranch(pd, st, ss, dc, cv, c1, group, pBits) ==
    KahanResult(pd, st, ss, dc, cv, c1, KahanApply(pd, c1, group, pBits))

\* Lines 170-184: the apply, by use_kahan_summation.  pd is the decayed
\* parameter, st the state after the moment update, ss, dc and cv the
\* outputs of lines 158-167.
Apply(pd, st, ss, dc, cv, group, pBits, opmath) ==
    IF group.use_kahan_summation
    THEN KahanBranch(pd, st, ss, dc, cv,
                     Accumulate(st.compensation, st.exp_avg, cv, ss, group,
                                opmath),
                     group, pBits)
    ELSE [trace |-> Trace("direct", pd, ss, dc, cv, Zero, Zero),
          p |-> DirectApply(pd, st.exp_avg, cv, ss, group, pBits, opmath),
          state |-> st]

\* Lines 163-184 given the step size and the denominator's correction.
Center(pd, st, ss, dc, group, pBits, opmath) ==
    Apply(pd, st, ss, dc, CenteredVariance(st.exp_avg_sq, dc, group, opmath),
          group, pBits, opmath)

\* Lines 158-184 once the step is counted, the parameter decayed and the
\* moments updated; up1 and up2 tell how the two powers round.
SizeAndApply(pd, st, group, pBits, opmath, up1, up2) ==
    Center(pd, st, StepSize(StepCount(st), group, up1),
           DenomCorrection(StepCount(st), group, up2), group, pBits, opmath)

\* Faulty variant: the step sizer runs before the moment update and reads the
\* variance of the previous step.
UpdateParamStaleVariance(p, st, g, group, pBits, opmath, up1, up2) ==
    LET old == IncStep(GetOrCreate(st, group))
        new == UpdateMoments(old, g, group, pBits, opmath)
    IN  Center(WeightDecay(p, group, pBits, opmath),
               [new EXCEPT !.exp_avg_sq = old.exp_avg_sq],
               StepSize(StepCount(new), group, up1),
               DenomCorrection(StepCount(new), group, up2),
               group, pBits, opmath)

\* Lines 108-184 for one parameter with a dense gradient g: the new value,
\* the new state record and the intermediate values of the update.
UpdateParam(p, st, g, group, pBits, opmath, up1, up2) ==
    SizeAndApply(WeightDecay(p, group, pBits, opmath),
                 UpdateMoments(IncStep(GetOrCreate(st, group)), g, group,
                               pBits, opmath),
                 group, pBits, opmath, up1, up2)

NoTrace == Trace("skipped", Zero, Zero, Zero, Zero, Zero, Zero)

\* Faulty variant: weight decay is applied before the gradient is looked at.
SkipParamDecays(p, st, group, pBits, opmath) ==
    [p |-> WeightDecay(p, group, pBits, opmath), state |-> st,
     trace |-> NoTrace, raised |-> FALSE]

\* Lines 102-103: p.grad is None: continue.
SkipParam(p, st, group, pBits, opmath) ==
    [p |-> p, state |-> st, trace |-> NoTrace, raised |-> FALSE]

\* Faulty variant: self.state[p] is looked up and initialised before the test.
RaiseSparseAfterLookup(p, st, group, pBits) ==
    [p |-> p, state |-> GetOrCreate(st, group), trace |-> NoTrace,
     raised |-> TRUE]

\* Lines 105-106: a sparse gradient raises RuntimeError, before
\* self.state[p] is looked up (line 108).
RaiseSparse(p, st, group, pBits) ==
    [p |-> p, state |-> st, trace |-> NoTrace, raised |-> TRUE]

\* The build and the rounding of the two powers of one call.
Build(opmath, up1, up2) == [opmath |-> opmath, up1 |-> up1, up2 |-> up2]

\* Lines 102-184: the body of the loop for one parameter.
ProcessParam(p, st, gr, group, pBits, b) ==
    IF gr.kind = "none" THEN SkipParam(p, st, group, pBits, b.opmath)
    ELSE IF gr.kind = "sparse" THEN RaiseSparse(p, st, group, pBits)
    ELSE [raised |-> FALSE]
           @@ UpdateParam(p, st, gr.val, group, pBits, b.opmath, b.up1, b.up2)

LoopResult(par, sta, tr, err) ==
    [param |-> par, state |-> sta, trace |-> tr, raised |-> err]

\* Lines 88-184: the loop over the parameters from index i on.  The
\* exception of line 106 ends the call: the parameters after it are not
\* visited, the ones before it keep their update.
RECURSIVE Loop(_, _, _, _, _, _, _, _)
\* Faulty variant: the error is only reported once the loop is over.
VisitedKeepsGoing(i, par, sta, tr, g, groups, dt, b, r) ==
    [Loop(i + 1, [par EXCEPT ![i] = r.p], [sta EXCEPT ![i] = r.state],
          [tr EXCEPT ![i] = r.trace], g, groups, dt, b)
        EXCEPT !.raised = @ \/ r.raised]

Visited(i, par, sta, tr, g, groups, dt, b, r) ==
    IF r.raised
    THEN LoopResult([par EXCEPT ![i] = r.p], [sta EXCEPT ![i] = r.state],
                    [tr EXCEPT ![i] = r.trace], TRUE)
    ELSE Loop(i + 1, [par EXCEPT ![i] = r.p], [sta EXCEPT ![i] = r.state],
              [tr EXCEPT ![i] = r.trace], g, groups, dt, b)

Loop(i, par, sta, tr, g, groups, dt, b) ==
    IF i \notin DOMAIN par THEN LoopResult(par, sta, tr, FALSE)
    ELSE Visited(i, par, sta, tr, g, groups, dt, b,
                 ProcessParam(par[i], sta[i], g[i], groups[i], dt[i], b))

VARIABLES
    hyper,      \* hyper[p]: the hyperparameters of p's param group
    dtype,      \* dtype[p]: significant bits of parameter p's own storage
    opmath,     \* whether the build's bfloat16 kernels compute in float32
    param,      \* param[p]: the parameter's value
    state,      \* self.state[p]
    grad,       \* p.grad as read by the last step() call
    closure,    \* whether the last step() call was given a closure
    closureRan, \* how often the last step() call invoked its closure
    raised,     \* whether the last step() call raised RuntimeError
    trace,      \* intermediate values of the last step() call, per parameter
    calls,      \* number of step() calls so far
    processed   \* processed[p]: calls so far whose loop reached p with a
                \* dense gradient

vars == <<hyper, dtype, opmath, param, state, grad, closure, closureRan,
          raised, trace, calls, processed>>

\* The loop of a call with gradients g reaches p: no parameter before p has
\* a sparse gradient.
Reached(g, p) == \A q \in DOMAIN g : q < p => g[q].kind # "sparse"

\* 1.0 and 193/256.
InitParam == [p \in Params |-> IF p = 1 THEN One ELSE Float(193, -8)]

\* After construction: no state, no call made.
Fresh(ps) ==
    /\ state = [p \in ps |-> NoState]
    /\ grad = [p \in ps |-> NoGrad]
    /\ closure = FALSE
    /\ closureRan = 0
    /\ raised = FALSE
    /\ trace = [p \in ps |-> NoTrace]
    /\ calls = 0
    /\ processed = [p \in ps |-> 0]

\* A long run: StepLimit - 1 calls without a closure, each with the dense
\* gradient 0.0 for every parameter.  Without weight decay, and with an eps
\* the variance dtype holds as a non-zero value, every one of these calls
\* leaves the parameter and the zero buffers as they are and counts the step.
LongRun == StepLimit - 1

LongRunGroups(c) ==
    \A p \in Params :
        /\ c.hyper[p].weight_decay.s = 0
        /\ ToDtype(ToFloat32(c.hyper[p].eps), c.hyper[p].variance_dtype) # Zero
        /\ ToFloat32(c.hyper[p].beta1) # One
        /\ ToFloat32(c.hyper[p].beta2) # One

BeforeLast(group) == [InitState(group) EXCEPT !.step = Float(LongRun - 1, 0)]

ZeroGrads == [p \in Params |-> Dense(Zero)]

\* The state the last call of the long run leaves behind.
Aged(r) ==
    /\ param = r.param
    /\ state = r.state
    /\ trace = r.trace
    /\ raised = r.raised
    /\ grad = ZeroGrads
    /\ closure = FALSE
    /\ closureRan = 0
    /\ calls = LongRun
    /\ processed = [p \in Params |-> LongRun]

\* The optimizer after construction over one of the configurations, or after
\* a long run from there, under either build.
Init ==
    \E c \in Configs, om \in BOOLEAN :
        /\ hyper = c.hyper
        /\ dtype = c.dtype
        /\ opmath = om
        /\ \/ param = InitParam /\ Fresh(Params)
           \/ /\ LongRunGroups(c)
              /\ Aged(Loop(1, InitParam,
                           [p \in Params |-> BeforeLast(c.hyper[p])],
                           [p \in Params |-> NoTrace], ZeroGrads,
                           c.hyper, c.dtype, Build(om, FALSE, FALSE)))

\* Lines 83-86: the closure, when step() is given one, is called once
\* before the loop; the loop over the parameters does not read the loss.
Closure(withClosure) ==
    /\ closure' = withClosure
    /\ closureRan' = IF withClosure THEN 1 ELSE 0

\* step(closure) with p.grad = g[p]: lines 76-184.  up1 and up2 tell how the
\* power function rounds beta1 ** step and beta2 ** step in this call.
Step(g, up1, up2) ==
    /\ LET r == Loop(1, param, state, [p \in DOMAIN param |-> NoTrace], g,
                     hyper, dtype, Build(opmath, up1, up2))
       IN  /\ param' = r.param
           /\ state' = r.state
           /\ trace' = r.trace
           /\ raised' = r.raised
    /\ grad' = g
    /\ calls' = calls + 1
    /\ processed' = [p \in DOMAIN param |->
                      processed[p]
                        + IF g[p].kind = "dense" /\ Reached(g, p) THEN 1 ELSE 0]
    /\ \E withClosure \in BOOLEAN : Closure(withClosure)
    /\ UNCHANGED <<hyper, dtype, opmath>>

\* How the power function can round beta ** t: either way, unless the power
\* is a float32 value.
Roundings(beta, t) ==
    IF Pow(ToFloat32(beta), t, FALSE) = Pow(ToFloat32(beta), t, TRUE)
    THEN {FALSE} ELSE BOOLEAN

\* How the power function can round the powers of the beta named which in a
\* call with gradients g: the roundings of the parameters the call updates.
CallRoundings(g, which) ==
    {FALSE} \cup
    UNION { Roundings(hyper[p][which],
                      StepCount(IncStep(GetOrCreate(state[p], hyper[p])))) :
              p \in {q \in DOMAIN g : g[q].kind = "dense" /\ Reached(g, q)} }

Next ==
    /\ (IF calls >= LongRun THEN calls - LongRun ELSE calls) < MaxCalls
    /\ \E g \in [Params -> Grads] :
          \E up1 \in CallRoundings(g, "beta1"),
             up2 \in CallRoundings(g, "beta2") : Step(g, up1, up2)

Spec == Init /\ [][Next]_vars

\* ---------------------------------------------------- repeated small updates
\* Three parameters starting from the same value, each in its own param
\* group: bfloat16 with Kahan summation, bfloat16 without, and float32
\* without (the full-precision reference).  Every call supplies the same
\* dense gradient to all three.
Run == [kahan |-> 1, plain |-> 2, reference |-> 3]
TrajParams == 1 .. 3

\* Largest number of step() calls of a trajectory.
MaxTrajCalls == 9

\* Starting values: 1.0, 0.5, 193/256, 1.5.
TrajStart == {One, Float(1, -1), Float(193, -8), Float(3, -1)}

\* Learning rates below half the bfloat16 spacing at the starting values.
TrajRates == {Dyadic(1, -10), Dyadic(1, -9)}

TrajGrads == {One, Neg(One), Float(1, -1)}

\* Weight decays: none, and 1.0.
TrajDecays == {ExactZero, ExactOne}

\* beta2: 1/2, and 1 - 2^-10.
TrajBetas == {Dyadic(1, -1), Dyadic(1023, -10)}

TrajGroup(lr, b2, wd, kahan, bits) ==
    Group(lr, Dyadic(1, -1), b2, Dyadic(1, -10), wd, kahan, bits, bits, bits)

TrajHyper(lr, b2, wd) ==
    [p \in TrajParams |->
        IF p = Run.kahan THEN TrajGroup(lr, b2, wd, TRUE, BF16Bits)
        ELSE IF p = Run.plain THEN TrajGroup(lr, b2, wd, FALSE, BF16Bits)
        ELSE TrajGroup(lr, b2, wd, FALSE, FP32Bits)]

TrajInit ==
    /\ \E lr \in TrajRates, b2 \in TrajBetas, wd \in TrajDecays :
          hyper = TrajHyper(lr, b2, wd)
    /\ dtype = [p \in TrajParams |->
                  IF p = Run.reference THEN FP32Bits ELSE BF16Bits]
    /\ opmath \in BOOLEAN
    /\ \E p0 \in TrajStart : param = [p \in TrajParams |-> p0]
    /\ Fresh(TrajParams)

\* The dense gradient gv for every parameter.
Same(gv) == [p \in TrajParams |-> Dense(gv)]

TrajNext ==
    /\ calls < MaxTrajCalls
    /\ \E gv \in TrajGrads :
          /\ calls > 0 => grad[Run.kahan] = Dense(gv)
          /\ \E up1 \in CallRoundings(Same(gv), "beta1"),
                up2 \in CallRoundings(Same(gv), "beta2") :
                Step(Same(gv), up1, up2)
          /\ ~closure'

SpecTraj == TrajInit /\ [][TrajNext]_vars

\* ------------------------------------------------------------- properties
\* The properties compare the values the update leaves with values computed
\* on exact numbers (sign, magnitude, exponent) and rounded from there.

HasState(p) == DOMAIN state[p] # {}

\* state["step"] of a state record as a whole number, 0 while the record
\* does not exist.
Steps(st) == IF DOMAIN st = {} THEN 0 ELSE StepCount(st)

\* The call that led to the primed state updated p: its gradient was dense
\* and no parameter before it aborted the call.
UpdatedIn(g, p) == g[p].kind = "dense" /\ Reached(g, p)

\* x < y for float32 values, false when either is NaN.
Less(x, y) == FSub(x, y).m < 0

\* a = b and a < b for exact numbers.
ExactSame(a, b) == ExactAdd(a, ExactNeg(b)).s = 0

ExactLess(a, b) == ExactAdd(a, ExactNeg(b)).s < 0

ExactAbs(a) == [a EXCEPT !.s = @ * @]

\* The exact number a, computed in float32 and stored at P significant bits.
Through(a, P) == Narrow(ExactRound(ExactRound(a, FP32Bits), P))

\* The exact sum and difference of two finite values.
Plus(x, y) == ExactAdd(ExactOf(x), ExactOf(y))

Minus(x, y) == ExactAdd(ExactOf(x), ExactNeg(ExactOf(y)))

\* The exact number a is a value of P significant bits.
Holds(a, P) == ExactSame(ExactRound(a, P), a)

\* The Python float s as an operation on a tensor of P significant bits
\* takes it: as a float32, and as a bfloat16 where the bfloat16 kernels do
\* not compute in float32.
Taken(s, P, om) ==
    IF P = BF16Bits /\ ~om
    THEN ExactRound(ExactRound(s, FP32Bits), BF16Bits)
    ELSE ExactRound(s, FP32Bits)

\* C1 as stated: step never decreases, grows by exactly 1 on every call in
\* which the parameter's gradient is present (not None) and is unchanged by
\* calls in which it is absent.
C1_StepPerPresentGradient ==
    [][\A p \in Params :
         /\ Steps(state'[p]) >= Steps(state[p])
         /\ grad'[p].kind # "none"
              => Steps(state'[p]) = Steps(state[p]) + 1
         /\ grad'[p].kind = "none"
              => Steps(state'[p]) = Steps(state[p])]_vars

\* C1 amended: step never decreases; a call whose loop reaches the parameter
\* with a dense gradient increases it by exactly 1 while it is below 2^24
\* and leaves it at 2^24 from then on; every other call leaves it unchanged;
\* so step is the number of such calls, capped at 2^24.
C1_StepCountsUpdates ==
    /\ [](\A p \in Params : Steps(state[p]) = Min(processed[p], StepLimit))
    /\ [][\A p \in Params :
            /\ Steps(state'[p]) >= Steps(state[p])
            /\ UpdatedIn(grad', p)
                 => Steps(state'[p])
                      = IF Steps(state[p]) < StepLimit
                        THEN Steps(state[p]) + 1 ELSE StepLimit
            /\ ~UpdatedIn(grad', p)
                 => Steps(state'[p]) = Steps(state[p])]_vars

\* A parameter updated 2^24 + 1 times whose step is 2^24.
C1_Witness ==
    \E p \in Params :
        /\ processed[p] = StepLimit + 1 /\ Steps(state[p]) = StepLimit
        /\ trace[p].kind # "skipped"

\* C2: a call in which a parameter's gradient is sparse raises, and leaves
\* that parameter's value and its whole state record (step, momentum,
\* variance, compensation; or no record at all) as they were.
C2_SparseChangesNothing ==
    [][\A p \in Params :
         grad'[p].kind = "sparse"
           => raised' /\ param'[p] = param[p] /\ state'[p] = state[p]]_vars

\* A sparse gradient reached for a parameter that has a state record and a
\* non-zero weight decay.
C2_Witness ==
    \E p \in Params :
        /\ raised /\ grad[p].kind = "sparse" /\ Reached(grad, p)
        /\ HasState(p) /\ hyper[p].weight_decay.s # 0

\* C3: a call in which a parameter's gradient is None leaves that
\* parameter's value and state record as they were, and None gradients
\* raise nothing: a call raises only for a sparse gradient.
C3_AbsentIsSkipped ==
    [][/\ \A p \in Params :
            grad'[p].kind = "none"
              => param'[p] = param[p] /\ state'[p] = state[p]
       /\ raised' => \E q \in Params : grad'[q].kind = "sparse"]_vars

\* A call that skipped an initialised parameter with non-zero weight decay
\* while updating the other one.
C3_Witness ==
    \E p, q \in Params :
        /\ ~raised /\ grad[p].kind = "none" /\ HasState(p)
        /\ hyper[p].weight_decay.s # 0
        /\ trace[q].kind # "skipped"

\* C4 as stated: a state record exists exactly when some call with a
\* present (not None) gradient has occurred, and is never removed or
\* re-initialised.
C4_StateIffPresentGradient ==
    [][\A p \in Params :
         /\ grad'[p].kind # "none" => DOMAIN state'[p] # {}
         /\ (grad'[p].kind = "none" /\ ~HasState(p)) => DOMAIN state'[p] = {}
         /\ HasState(p)
              => /\ DOMAIN state'[p] = DOMAIN state[p]
                 /\ Steps(state'[p]) >= Steps(state[p])]_vars

\* C4 amended: a state record exists exactly when some call has reached the
\* parameter with a dense gradient; once created it keeps its keys, its step
\* is never reset, and a later update continues from the stored step and
\* buffers.
C4_StateIffUpdated ==
    /\ [](\A p \in Params : HasState(p) <=> processed[p] > 0)
    /\ [][\A p \in Params :
            HasState(p)
              => /\ DOMAIN state'[p] = DOMAIN state[p]
                 /\ Steps(state'[p]) >= Steps(state[p])
                 /\ UpdatedIn(grad', p)
                      => /\ Steps(state'[p])
                              = Min(Steps(state[p]) + 1, StepLimit)
                         /\ state'[p].exp_avg
                              = UpdateMomentum(state[p].exp_avg, grad'[p].val,
                                               hyper[p], dtype[p], opmath)
                         /\ state'[p].exp_avg_sq
                              = UpdateVariance(state[p].exp_avg_sq,
                                               grad'[p].val, hyper[p],
                                               dtype[p], opmath)]_vars

\* A record updated a second time with its momentum carried over.
C4_Witness ==
    \E p \in Params :
        /\ HasState(p) /\ Steps(state[p]) = 2
        /\ grad[p] = Dense(Zero) /\ state[p].exp_avg # Zero

\* The value p times the exact scalar f, as an in-place multiplication of a
\* tensor of P significant bits leaves it.
Product(p, f, P) ==
    IF IsNaN(p) \/ (IsInf(p) /\ f.s = 0) \/ (p = Zero /\ f.e = Inf.e)
    THEN NaN
    ELSE Through(ExactMul(ExactOf(p), f), P)

\* param * (1 - lr * weight_decay) as line 150 computes it: the factor is a
\* Python float (the product, then the difference, each rounded to a
\* double), which the multiplication takes as a float32 (as a bfloat16 in a
\* bfloat16 kernel that does not compute in float32); the product is
\* computed in float32 and stored at the parameter's precision.
Decayed(p, group, P, om) ==
    Product(p,
            Taken(Double(ExactOneMinus(Double(ExactMul(group.lr,
                                                       group.weight_decay)))),
                  P, om),
            P)

\* C5 as stated: an update with an all-zero gradient and non-zero weight
\* decay, from any state, leaves parameter * (1 - lr * weight_decay).
C5_ZeroGradientOnlyDecays ==
    [][\A p \in Params :
         (UpdatedIn(grad', p) /\ grad'[p].val = Zero
            /\ hyper[p].weight_decay.s # 0)
           => param'[p] = Decayed(param[p], hyper[p], dtype[p], opmath)]_vars

\* The momentum and the compensation of p are zero (or not yet created).
NothingPending(p) ==
    \/ ~HasState(p)
    \/ /\ state[p].exp_avg = Zero
       /\ hyper[p].use_kahan_summation => state[p].compensation = Zero

\* C5 amended: an update with an all-zero gradient and non-zero weight decay
\* from a state whose momentum and compensation are zero (the first update
\* in particular) leaves parameter * (1 - lr * weight_decay), with the
\* factor and the product rounded as line 150 rounds them, when the step
\* size is finite (also as a bfloat16) and the denominator is neither zero
\* nor NaN; it leaves NaN when the step size is not finite or the
\* denominator is zero or NaN.
C5_ZeroGradientDecaysWhenNothingPending ==
    [][\A p \in Params :
         (UpdatedIn(grad', p) /\ grad'[p].val = Zero
            /\ hyper[p].weight_decay.s # 0 /\ NothingPending(p))
           => /\ ( /\ Finite(ToDtype(trace'[p].step_size, BF16Bits))
                   /\ trace'[p].centered_variance.m # 0 )
                   => param'[p]
                        = Decayed(param[p], hyper[p], dtype[p], opmath)
              /\ ( \/ ~Finite(trace'[p].step_size)
                   \/ trace'[p].centered_variance.m = 0 )
                   => IsNaN(param'[p])]_vars

\* A first update with a zero gradient whose decay product rounds to a
\* value other than the exact product rounded once, beside a first update
\* with a zero gradient that divided zero by zero.
C5_Witness ==
    \E p, q \in Params :
        /\ grad[p] = Dense(Zero) /\ trace[p].kind # "skipped"
        /\ hyper[p].weight_decay.s # 0 /\ Steps(state[p]) = 1
        /\ Finite(param[p])
        /\ param[p]
             # Narrow(ExactRound(
                   ExactMul(ExactOf(InitParam[p]),
                            ExactOneMinus(ExactMul(hyper[p].lr,
                                                   hyper[p].weight_decay))),
                   dtype[p]))
        /\ grad[q] = Dense(Zero) /\ trace[q].kind # "skipped"
        /\ hyper[q].weight_decay.s # 0 /\ Steps(state[q]) = 1
        /\ trace[q].centered_variance = Zero /\ IsNaN(param[q])

\* The snapshot, the accumulated compensation and the new parameter of a
\* Kahan apply are finite.
KahanFinite(p) ==
    /\ trace[p].kind = "kahan"
    /\ Finite(trace[p].decayed) /\ Finite(trace[p].c1) /\ Finite(param[p])

\* (s + c1) - p' exactly.
Lost(p) == ExactAdd(Plus(trace[p].decayed, trace[p].c1),
                    ExactNeg(ExactOf(param[p])))

\* The addition of step (3) was exact: p' = s + c1.
StepThreeExact(p) == Lost(p).s = 0

\* C6 as stated: after a Kahan apply with snapshot s, accumulated
\* compensation c1 and new parameter p', p' + compensation = s + c1 whenever
\* the compensation buffer can hold (s + c1) - p' exactly, and the
\* compensation is zero when the addition of step (3) was exact.
C6_RecoversWhenBufferExact ==
    \A p \in Params :
        KahanFinite(p)
          => /\ Holds(Lost(p), hyper[p].compensation_buffer_dtype)
                  => ExactSame(Plus(param[p], state[p].compensation),
                               Plus(trace[p].decayed, trace[p].c1))
             /\ StepThreeExact(p) => state[p].compensation = Zero

\* s - p' as the in-place subtraction leaves it in the snapshot: computed in
\* float32 and stored at the parameter's precision.
Difference(p) == Through(Minus(trace[p].decayed, param[p]), dtype[p])

\* C6 amended: the compensation after step (4) is c1 + d, computed in
\* float32 and stored at the buffer's precision, where d is s - p' computed
\* in float32 and stored at the parameter's precision; so
\* p' + compensation = s + c1 whenever s - p' is a value of the parameter's
\* precision and c1 + (s - p') a value of the buffer's; when step (3) was
\* exact the compensation is c1 less c1 rounded to the parameter's
\* precision, which is zero exactly when c1 is a value of that precision.
\* When s or c1 is not finite the compensation ends NaN, and when only p'
\* is infinite it ends the opposite infinity.
C6_RecoversWhenDifferenceExact ==
    \A p \in Params :
        /\ KahanFinite(p)
             => /\ state[p].compensation
                     = Through(Plus(trace[p].c1, Difference(p)),
                               hyper[p].compensation_buffer_dtype)
                /\ ( /\ Holds(Minus(trace[p].decayed, param[p]), dtype[p])
                     /\ Holds(Lost(p), hyper[p].compensation_buffer_dtype) )
                     => ExactSame(Plus(param[p], state[p].compensation),
                                  Plus(trace[p].decayed, trace[p].c1))
                /\ StepThreeExact(p)
                     => /\ ExactSame(
                              ExactOf(state[p].compensation),
                              ExactAdd(ExactOf(trace[p].c1),
                                       ExactNeg(ExactRound(
                                           ExactOf(trace[p].c1), dtype[p]))))
                        /\ state[p].compensation = Zero
                             <=> Holds(ExactOf(trace[p].c1), dtype[p])
        /\ ( /\ trace[p].kind = "kahan"
             /\ ~Finite(trace[p].decayed) \/ ~Finite(trace[p].c1) )
             => IsNaN(state[p].compensation)
        /\ ( /\ trace[p].kind = "kahan"
             /\ Finite(trace[p].decayed) /\ Finite(trace[p].c1)
             /\ ~Finite(param[p]) )
             => state[p].compensation = Neg(param[p])

\* A Kahan apply whose addition rounded and whose error went to the buffer,
\* beside one on a bfloat16 parameter with a float32 buffer whose addition
\* was exact and left a non-zero compensation.
C6_Witness ==
    \E p, q \in Params :
        /\ KahanFinite(p) /\ ~StepThreeExact(p)
        /\ state[p].compensation # Zero
        /\ ExactSame(Plus(param[p], state[p].compensation),
                     Plus(trace[p].decayed, trace[p].c1))
        /\ KahanFinite(q) /\ StepThreeExact(q)
        /\ dtype[q] < hyper[q].compensation_buffer_dtype
        /\ trace[q].c1 # Zero
        /\ state[q].compensation # Zero

\* Distance of the trajectory p from the full-precision reference, the
\* parameters being par.
ErrorOf(par, p) == ExactAbs(Minus(par[p], par[Run.reference]))

\* Spacing of the P-bit format at the non-zero value x.
Ulp(x, P) == Exact(1, <<1>>, Top(x) - P)

\* The uncompensated error has reached the spacing of the parameter's format.
Saturated(par) ==
    ~ExactLess(ErrorOf(par, Run.plain), Ulp(par[Run.plain], BF16Bits))

\* C7: under repeated identical gradients, after every call that leaves the
\* uncompensated bfloat16 parameter where it was (the update is below its
\* resolution) with an error that has reached the spacing of its format,
\* the compensated parameter is strictly closer to the float32 reference.
C7_KahanTracksCloser ==
    [][(param'[Run.plain] = param[Run.plain] /\ Saturated(param'))
         => ExactLess(ErrorOf(param', Run.kahan),
                      ErrorOf(param', Run.plain))]_vars

\* One update's apply, from the decayed parameter pd, the state record old
\* before and new after the update, and the recorded intermediates tr.
AppliedInOrder(p, pd, old, new, tr, group, P, om) ==
    IF group.use_kahan_summation
    THEN /\ tr.c1 = Accumulate(old.compensation, new.exp_avg,
                               tr.centered_variance, tr.step_size, group, om)
         /\ p = ToDtype(FAdd(pd, tr.c1), P)
         /\ tr.diff = ToDtype(FSub(pd, p), P)
         /\ new.compensation
              = ToDtype(FAdd(tr.c1, tr.diff), group.compensation_buffer_dtype)
    ELSE p = DirectApply(pd, new.exp_avg, tr.centered_variance, tr.step_size,
                         group, P, om)

StagesInOrder(pOld, pNew, old, new, tr, g, group, P, om) ==
    /\ StepCount(new) = Min(StepCount(old) + 1, StepLimit)
    /\ tr.decayed = WeightDecay(pOld, group, P, om)
    /\ new.exp_avg = UpdateMomentum(old.exp_avg, g, group, P, om)
    /\ new.exp_avg_sq = UpdateVariance(old.exp_avg_sq, g, group, P, om)
    /\ \E up \in BOOLEAN : tr.step_size = StepSize(StepCount(new), group, up)
    /\ \E up \in BOOLEAN :
          tr.denom_correction = DenomCorrection(StepCount(new), group, up)
    /\ tr.centered_variance
         = CenteredVariance(new.exp_avg_sq, tr.denom_correction, group, om)
    /\ AppliedInOrder(pNew, tr.decayed, old, new, tr, group, P, om)

\* C8: within one update the step is counted first, the decay acts on the
\* old parameter, the moments are updated from the old buffers, the step
\* sizer reads the updated variance and the incremented step, and the apply
\* works on the decayed parameter with those outputs; the Kahan apply
\* accumulates, adds to the parameter, then adds snapshot - parameter.
C8_StagesInOrder ==
    [][\A p \in Params :
         trace'[p].kind # "skipped"
           => StagesInOrder(param[p], param'[p],
                            GetOrCreate(state[p], hyper[p]), state'[p],
                            trace'[p], grad'[p].val, hyper[p], dtype[p],
                            opmath)]_vars

\* A second Kahan update with weight decay and a non-zero gradient whose
\* decay changed the parameter.
C8_Witness ==
    \E p \in Params :
        /\ trace[p].kind = "kahan" /\ Steps(state[p]) = 2
        /\ hyper[p].weight_decay.s # 0 /\ grad[p].val # Zero
        /\ trace[p].decayed # param[p]

StoredEps(group) == Through(group.eps, group.variance_dtype)

\* The quotient plus eps: eps taken by the addition as a float32 (as a
\* bfloat16 in a bfloat16 kernel that does not compute in float32), the sum
\* computed in float32 and stored at the variance dtype.
WithEps(quot, group, om) ==
    IF ~Finite(quot) THEN quot
    ELSE Through(ExactAdd(ExactOf(quot),
                          Taken(group.eps, group.variance_dtype, om)),
                 group.variance_dtype)

FullyUpdated(p, g) ==
    \E up1, up2 \in BOOLEAN :
        /\ param'[p]
             = UpdateParam(param[p], state[p], g[p].val, hyper[p], dtype[p],
                           opmath, up1, up2).p
        /\ state'[p]
             = UpdateParam(param[p], state[p], g[p].val, hyper[p], dtype[p],
                           opmath, up1, up2).state

\* C10 as stated: a call that raises stops at the first parameter k with a
\* sparse gradient: every parameter before k with a dense gradient is fully
\* updated (step + 1, value and state those of its update), every
\* parameter from k on is untouched, and the closure, when given, has run
\* exactly once.
C10_EarlierStepsPlusOne ==
    [][raised' =>
         /\ \E k \in Params :
              /\ grad'[k].kind = "sparse" /\ Reached(grad', k)
              /\ \A j \in Params :
                   /\ (j < k /\ grad'[j].kind = "dense")
                        => /\ Steps(state'[j]) = Steps(state[j]) + 1
                           /\ trace'[j].kind # "skipped"
                           /\ FullyUpdated(j, grad')
                   /\ (j < k /\ grad'[j].kind = "none")
                        => param'[j] = param[j] /\ state'[j] = state[j]
                   /\ j >= k
                        => /\ param'[j] = param[j] /\ state'[j] = state[j]
                           /\ trace'[j].kind = "skipped"
         /\ closureRan' = IF closure' THEN 1 ELSE 0]_vars

\* C10 amended: as stated, except that the step of an earlier parameter is
\* incremented by 1 only while it is below 2^24, and is left at 2^24 once it
\* has reached it.
C10_NotAtomicAcrossParameters ==
    [][raised' =>
         /\ \E k \in Params :
              /\ grad'[k].kind = "sparse" /\ Reached(grad', k)
              /\ \A j \in Params :
                   /\ (j < k /\ grad'[j].kind = "dense")
                        => /\ Steps(state'[j])
                                = Min(Steps(state[j]) + 1, StepLimit)
                           /\ trace'[j].kind # "skipped"
                           /\ FullyUpdated(j, grad')
                   /\ (j < k /\ grad'[j].kind = "none")
                        => param'[j] = param[j] /\ state'[j] = state[j]
                   /\ j >= k
                        => /\ param'[j] = param[j] /\ state'[j] = state[j]
                           /\ trace'[j].kind = "skipped"
         /\ closureRan' = IF closure' THEN 1 ELSE 0]_vars

\* A failed call, given a closure, whose first parameter was updated and
\* changed before the second one raised.
C10_Witness ==
    /\ raised /\ closure /\ closureRan = 1
    /\ grad[2].kind = "sparse" /\ trace[1].kind # "skipped"
    /\ param[1] # InitParam[1] /\ Steps(state[1]) = 1 /\ ~HasState(2)
====
